---- MODULE Spec2Model ----
(***************************************************************************)
(* Model of rankings_script.py: the per-week round-robin records           *)
(* (get_weekly_records), the power-ranking aggregation                     *)
(* (calculate_power_rankings) and the division steps of the table printer  *)
(* (print_power_rankings_table).                                           *)
(*                                                                         *)
(* Scores are integers.  A Python float that is a quotient of two small    *)
(* integers (ranking) is kept as the pair <<numerator, denominator>> and    *)
(* compared by cross-multiplication; the median is kept doubled so that     *)
(* the mean of the two middle values stays an integer.                      *)
(***************************************************************************)
EXTENDS Integers, Sequences, FiniteSets, TLC

\* ------------------------------------------------------------------ bounds
MaxTeams == 3
MaxLen == 2
MaxScore == 2

\* --------------------------------------------------------------- constants
max_week == 14

VARIABLES league, week_arg, pc, week, teams, weekly_records, rankings, fault

vars == <<league, week_arg, pc, week, teams, weekly_records, rankings, fault>>

\* ----------------------------------------------------------------- helpers
Min(a, b) == IF a <= b THEN a ELSE b

Max(a, b) == IF a >= b THEN a ELSE b

RECURSIVE SumSeq(_)
SumSeq(s) == IF Len(s) = 0 THEN 0 ELSE s[1] + SumSeq(Tail(s))

\* Python s[:n]: the first n items, or all but the last -n when n < 0.
Slice(s, n) ==
    LET m == IF n >= 0 THEN Min(n, Len(s)) ELSE Max(Len(s) + n, 0)
    IN  SubSeq(s, 1, m)

\* Comparison of keys kept as <<numerator, denominator>>, denominator > 0.
KeyLess(a, b) == a[1] * b[2] < b[1] * a[2]

\* One insertion step of a stable sort: x goes after every item that does
\* not have to follow it, so equal keys keep their original order.
RECURSIVE InsertStable(_, _, _, _)
InsertStable(sorted, x, key, reverse) ==
    IF Len(sorted) = 0 THEN <<x>>
    ELSE LET h == Head(sorted)
             xFirst == IF reverse THEN KeyLess(key[h], key[x])
                                  ELSE KeyLess(key[x], key[h])
         IN  IF xFirst THEN <<x>> \o sorted
             ELSE <<h>> \o InsertStable(Tail(sorted), x, key, reverse)

RECURSIVE SortPrefix(_, _, _)
SortPrefix(key, n, reverse) ==
    IF n = 0 THEN <<>>
    ELSE InsertStable(SortPrefix(key, n - 1, reverse), n, key, reverse)

\* sorted(items, key=..., reverse=...): key[i] is the key of items[i].
PySorted(items, key, reverse) ==
    LET idx == SortPrefix(key, Len(items), reverse)
    IN  [i \in 1..Len(items) |-> items[idx[i]]]

\* ------------------------------------------------------ get_weekly_records
\* (team_id, score) of every team that has a score at week_idx, list order.
CollectWeekScores(all_teams, week_idx) ==
    LET have == SelectSeq(all_teams, LAMBDA t : week_idx < Len(t.scores))
    IN  [i \in 1..Len(have) |-> <<have[i].team_id, have[i].scores[week_idx + 1]>>]

\* Mutant: ascending instead of descending.
SortWeekScores_ascending(ws) ==
    PySorted(ws, [i \in 1..Len(ws) |-> <<ws[i][2], 1>>], FALSE)

\* Mutant: sorted ascending and then reversed, which turns equal scores round.
SortWeekScores_reversed(ws) ==
    LET asc == PySorted(ws, [i \in 1..Len(ws) |-> <<ws[i][2], 1>>], FALSE)
    IN  [i \in 1..Len(ws) |-> asc[Len(ws) + 1 - i]]

SortWeekScores(ws) ==
    PySorted(ws, [i \in 1..Len(ws) |-> <<ws[i][2], 1>>], TRUE)

\* Mutant: wins counted from the rank without the team itself taken off.
RankRecord_offbyone(ws, rank) ==
    [wins |-> Len(ws) - rank, losses |-> rank, score |-> ws[rank + 1][2]]

RankRecord(ws, rank) ==
    [wins |-> Len(ws) - (rank + 1), losses |-> rank, score |-> ws[rank + 1][2]]

\* The dict built by the loop over enumerate(week_scores): a later entry of
\* the same team_id overwrites an earlier one.
WeekRecords(all_teams, week_idx) ==
    LET ws == SortWeekScores(CollectWeekScores(all_teams, week_idx))
        ids == {ws[i][1] : i \in 1..Len(ws)}
        last(id) == CHOOSE i \in 1..Len(ws) :
                        /\ ws[i][1] = id
                        /\ \A j \in 1..Len(ws) : ws[j][1] = id => j <= i
    IN  [id \in ids |-> RankRecord(ws, last(id) - 1)]

get_weekly_records(all_teams, w) ==
    [p \in 1..Max(w, 0) |-> WeekRecords(all_teams, p - 1)]

\* ------------------------------------------------ calculate_power_rankings
\* week_arg is <<>> for None and <<w>> for a given week.
EffectiveWeek(current_week, arg) ==
    IF Len(arg) = 0 \/ arg[1] = 0 THEN Min(current_week, max_week)
    ELSE Min(arg[1], max_week)

\* Mutant: the roster is used in the order the league gives it.
SortTeams_unsorted(ts) == ts

SortTeams(ts) ==
    PySorted(ts, [i \in 1..Len(ts) |-> <<ts[i].team_id, 1>>], FALSE)

\* team_weekly_records after the first n iterations of the loop over
\* enumerate(weekly_records).
RECURSIVE TeamWeeklyRecords(_, _, _, _)
TeamWeeklyRecords(team, wrs, rss, n) ==
    IF n = 0 THEN <<>>
    ELSE LET prev == TeamWeeklyRecords(team, wrs, rss, n - 1)
             week_idx == n - 1
         IN  IF week_idx >= Len(rss) THEN prev
             ELSE IF team.team_id \in DOMAIN wrs[n]
                  THEN Append(prev, wrs[n][team.team_id])
                  ELSE prev

\* Twice statistics.median of a non-empty collection of scores.
Median2(scores) ==
    LET n == Len(scores)
        s == PySorted(scores, [i \in 1..n |-> <<scores[i], 1>>], FALSE)
    IN  IF n % 2 = 1 THEN 2 * s[(n + 1) \div 2]
        ELSE s[n \div 2] + s[n \div 2 + 1]

\* The scores of week_record.values(), in an order of the keys.
RECURSIVE RecordScores(_, _)
RecordScores(week_record, ids) ==
    IF ids = {} THEN <<>>
    ELSE LET id == CHOOSE x \in ids : \A y \in ids : x <= y
         IN  <<week_record[id].score>> \o RecordScores(week_record, ids \ {id})

\* Mutant: a score equal to the median counts as a median win.
BeatsMedian_orequal(record, week_record) ==
    2 * record.score >= Median2(RecordScores(week_record, DOMAIN week_record))

BeatsMedian(record, week_record) ==
    2 * record.score > Median2(RecordScores(week_record, DOMAIN week_record))

MedianWins(team, wrs, rss) ==
    Cardinality({n \in 1..Len(wrs) :
        /\ n - 1 < Len(rss)
        /\ team.team_id \in DOMAIN wrs[n]
        /\ BeatsMedian(wrs[n][team.team_id], wrs[n])})

CountOutcome(outcomes, o) ==
    Cardinality({i \in 1..Len(outcomes) : outcomes[i] = o})

\* Mutant: wins over losses instead of wins over games.
Ranking_overlosses(total_wins, total_losses) ==
    IF total_losses > 0 THEN <<total_wins, total_losses>> ELSE <<0, 1>>

Ranking(total_wins, total_losses) ==
    IF total_wins + total_losses > 0
    THEN <<total_wins, total_wins + total_losses>>
    ELSE <<0, 1>>

PowerRankingTeam(team, wrs, w) ==
    LET regular_season_scores == Slice(team.scores, w)
        twr == TeamWeeklyRecords(team, wrs, regular_season_scores, Len(wrs))
        total_wins == SumSeq([i \in 1..Len(twr) |-> twr[i].wins])
        total_losses == SumSeq([i \in 1..Len(twr) |-> twr[i].losses])
        median_wins == MedianWins(team, wrs, regular_season_scores)
        median_losses == w - median_wins
        actual_records == Slice(team.outcomes, w)
        actual_wins == CountOutcome(actual_records, "W")
        actual_losses == CountOutcome(actual_records, "L")
        actual_ties == CountOutcome(actual_records, "T")
    IN  [name |-> team.team_name,
         team_id |-> team.team_id,
         ranking |-> Ranking(total_wins, total_losses),
         weekly_records |-> twr,
         scores |-> regular_season_scores,
         actual_record |-> [wins |-> actual_wins, losses |-> actual_losses,
                            ties |-> actual_ties],
         total_points |-> SumSeq(regular_season_scores),
         total_wins |-> total_wins,
         total_losses |-> total_losses,
         median_wins |-> median_wins,
         median_losses |-> median_losses,
         combined_wins |-> actual_wins + median_wins,
         combined_losses |-> actual_losses + median_losses]

\* Mutant: teams without a score are left out.
BuildRankings_skipempty(ts, wrs, w) ==
    LET scored == SelectSeq(ts, LAMBDA t : Len(t.scores) > 0)
    IN  [i \in 1..Len(scored) |-> PowerRankingTeam(scored[i], wrs, w)]

BuildRankings(ts, wrs, w) ==
    [i \in 1..Len(ts) |-> PowerRankingTeam(ts[i], wrs, w)]

SortRankings(rs) ==
    PySorted(rs, [i \in 1..Len(rs) |-> rs[i].ranking], TRUE)

\* ---------------------------------------------- print_power_rankings_table
\* The divisions of the printer: points per game (lines 134, 143, 169), the
\* true win percentage (176) and the median win percentage (177).
DivisionFault(rs) ==
    \E i \in 1..Len(rs) :
        \/ Len(rs[i].scores) = 0
        \/ rs[i].total_wins + rs[i].total_losses = 0
        \/ rs[i].median_wins + rs[i].median_losses = 0

\* ------------------------------------------------------------------ inputs
TeamName(id) == <<"Team", id>>

ScoreSeqs == UNION {[1..n -> 0..MaxScore] : n \in 0..MaxLen}

\* Outcome lists: a fixed win/loss/tie pattern starting at `shift`, of a
\* length that may differ from the number of scores.
OutcomePattern == <<"W", "L", "T">>

OutcomeSeq(shift, n) == [i \in 1..n |-> OutcomePattern[((shift + i) % 3) + 1]]

\* Orders of league.teams: ascending and descending team_id.
TeamOrders(n) == {[i \in 1..n |-> i], [i \in 1..n |-> n + 1 - i]}

WeekInputs == {-1, 0, 1, MaxLen + 1, max_week + 1}

CurrentWeeks == {0, max_week + 1}

\* <<current_week, week argument>>: no week asked at each current week, and
\* each week asked of a league that is at week MaxLen.
Calls ==
    {<<cw, <<>>>> : cw \in CurrentWeeks} \cup {<<MaxLen, <<w>>>> : w \in WeekInputs}

\* A team's outcome list has one entry per score, except that with `short`
\* the outcome list of team 1 lacks its last entry.
Team(id, scores, short) ==
    [team_id |-> id,
     team_name |-> TeamName(id),
     scores |-> scores,
     outcomes |-> OutcomeSeq(id, IF short /\ id = 1 THEN Max(0, Len(scores) - 1)
                                 ELSE Len(scores))]

Rosters ==
    UNION {
      { [i \in 1..n |-> Team(order[i], sc[order[i]], short)] :
          order \in TeamOrders(n), sc \in [1..n -> ScoreSeqs], short \in BOOLEAN }
      : n \in 0..MaxTeams }

Init ==
    /\ \E r \in Rosters, c \in Calls :
           /\ league = [teams |-> r, current_week |-> c[1]]
           /\ week_arg = c[2]
    /\ pc = "call"
    /\ week = 0
    /\ teams = <<>>
    /\ weekly_records = <<>>
    /\ rankings = <<>>
    /\ fault = "none"

\* ----------------------------------------------------------------- actions
\* A direct call get_weekly_records(league.teams, week).
GetWeeklyRecords ==
    /\ pc = "call"
    /\ Len(week_arg) = 1
    /\ pc' = "records"
    /\ week' = week_arg[1]
    /\ teams' = league.teams
    /\ weekly_records' = get_weekly_records(league.teams, week_arg[1])
    /\ UNCHANGED <<league, week_arg, rankings, fault>>

\* calculate_power_rankings(league, week).
CalculatePowerRankings ==
    /\ pc = "call"
    /\ LET w == EffectiveWeek(league.current_week, week_arg)
           ts == SortTeams(league.teams)
           wrs == get_weekly_records(ts, w)
       IN  /\ week' = w
           /\ teams' = ts
           /\ weekly_records' = wrs
           /\ rankings' = SortRankings(BuildRankings(ts, wrs, w))
    /\ pc' = "returned"
    /\ UNCHANGED <<league, week_arg, fault>>

\* print_power_rankings_table(rankings, week) on the returned list.  Its week
\* argument only sets the headings; what is kept of the printing is whether
\* one of its divisions raises.
PrintPowerRankingsTable ==
    /\ pc = "returned"
    /\ fault' = IF DivisionFault(rankings) THEN "ZeroDivisionError" ELSE "none"
    /\ pc' = "printed"
    /\ UNCHANGED <<league, week_arg, week, teams, weekly_records, rankings>>

Next ==
    \/ GetWeeklyRecords
    \/ CalculatePowerRankings
    \/ PrintPowerRankingsTable

Spec == Init /\ [][Next]_vars


\* ------------------------------------------------------------- observation
HasRecords == pc \in {"records", "returned", "printed"}

Returned == pc \in {"returned", "printed"}

\* Positions of the list given to get_weekly_records that have a score in
\* period p (periods counted from 1 here).
Scoring(p) == {i \in 1..Len(teams) : p <= Len(teams[i].scores)}

ScoreAt(i, p) == teams[i].scores[p]

Ascending(ts) ==
    \A i, j \in 1..Len(ts) : i < j => ts[i].team_id < ts[j].team_id

ResultOf(id) ==
    rankings[CHOOSE k \in 1..Len(rankings) : rankings[k].team_id = id]

RECURSIVE SumOver(_, _)
SumOver(f, S) ==
    IF S = {} THEN 0
    ELSE LET x == CHOOSE y \in S : TRUE IN f[x] + SumOver(f, S \ {x})

SameRanking(a, b) == a.ranking[1] * b.ranking[2] = b.ranking[1] * a.ranking[2]

\* The k-th smallest score of period p, and twice the period's median.
KthScore(p, k) ==
    CHOOSE v \in {ScoreAt(i, p) : i \in Scoring(p)} :
        /\ Cardinality({i \in Scoring(p) : ScoreAt(i, p) < v}) < k
        /\ k <= Cardinality({i \in Scoring(p) : ScoreAt(i, p) <= v})

PeriodMedian2(p) ==
    LET n == Cardinality(Scoring(p))
    IN  IF n % 2 = 1 THEN 2 * KthScore(p, (n + 1) \div 2)
        ELSE KthScore(p, n \div 2) + KthScore(p, n \div 2 + 1)

\* ------------------------------------------------------------------ claims

\* C1: in every period mapping of get_weekly_records, with K teams having a
\* score in the period, the mapping holds exactly those K teams, each has
\* wins + losses = K - 1, and the wins of the mapping sum to its losses.
C1_PeriodZeroSum ==
    HasRecords =>
        \A p \in 1..Len(weekly_records) :
            LET m == weekly_records[p]
                K == Cardinality(Scoring(p))
            IN  /\ DOMAIN m = {teams[i].team_id : i \in Scoring(p)}
                /\ \A id \in DOMAIN m : m[id].wins + m[id].losses = K - 1
                /\ SumOver([id \in DOMAIN m |-> m[id].wins], DOMAIN m)
                     = SumOver([id \in DOMAIN m |-> m[id].losses], DOMAIN m)

\* A period in which at least two teams scored while another team had no
\* score.
C1_Witness ==
    /\ HasRecords
    /\ \E p \in 1..Len(weekly_records) :
           /\ Cardinality(Scoring(p)) >= 2
           /\ Cardinality(Scoring(p)) < Len(teams)
           /\ Cardinality(DOMAIN weekly_records[p]) >= 2

\* C2 as stated: a team's wins is the number of teams it outscored in the
\* period and its losses the number of teams that outscored it, equal scores
\* included.
C2_OutscoredCounts ==
    HasRecords =>
        \A p \in 1..Len(weekly_records) : \A i \in Scoring(p) :
            LET rec == weekly_records[p][teams[i].team_id]
            IN  /\ rec.wins = Cardinality({j \in Scoring(p) :
                                  ScoreAt(j, p) < ScoreAt(i, p)})
                /\ rec.losses = Cardinality({j \in Scoring(p) :
                                  ScoreAt(j, p) > ScoreAt(i, p)})

\* C2 amended: wins is the number of teams outscored plus the equal-scoring
\* teams listed after the team, losses the number of teams that outscored it
\* plus the equal-scoring teams listed before it; a team whose score no other
\* team of the period equals has exactly the outscored and outscoring counts,
\* so a sole top scorer has no loss and a sole bottom scorer no win.
C2_OutscoredCountsTiesByOrder ==
    HasRecords =>
        \A p \in 1..Len(weekly_records) : \A i \in Scoring(p) :
            LET rec == weekly_records[p][teams[i].team_id]
                below == {j \in Scoring(p) : ScoreAt(j, p) < ScoreAt(i, p)}
                above == {j \in Scoring(p) : ScoreAt(j, p) > ScoreAt(i, p)}
                level == {j \in Scoring(p) : ScoreAt(j, p) = ScoreAt(i, p)}
            IN  /\ rec.wins = Cardinality(below)
                                + Cardinality({j \in level : j > i})
                /\ rec.losses = Cardinality(above)
                                + Cardinality({j \in level : j < i})
                /\ level = {i} =>
                       /\ rec.wins = Cardinality(below)
                       /\ rec.losses = Cardinality(above)
                       /\ above = {} => rec.losses = 0
                       /\ below = {} => rec.wins = 0

\* A period in which two teams share the top score above a third team.
C2_Witness ==
    /\ HasRecords
    /\ \E p \in 1..Len(weekly_records) : \E i, j, k \in Scoring(p) :
           /\ i < j
           /\ ScoreAt(i, p) = ScoreAt(j, p)
           /\ ScoreAt(k, p) < ScoreAt(i, p)
           /\ weekly_records[p][teams[j].team_id].losses = 1

\* C3: the returned list is in descending ranking order, entries of equal
\* ranking are in ascending team_id order whatever the order of
\* league.teams, and sorting it again by ranking descending changes nothing.
C3_SortedByRanking ==
    Returned =>
        /\ \A i, j \in 1..Len(rankings) :
               i < j =>
                   /\ rankings[i].ranking[1] * rankings[j].ranking[2]
                        >= rankings[j].ranking[1] * rankings[i].ranking[2]
                   /\ SameRanking(rankings[i], rankings[j])
                        => rankings[i].team_id < rankings[j].team_id
        /\ SortRankings(rankings) = rankings

\* Two teams of equal ranking that league.teams lists in descending team_id
\* order, next to a team of another ranking.
C3_Witness ==
    /\ pc = "returned"
    /\ \E i, j, k \in 1..Len(rankings) :
           /\ i < j
           /\ SameRanking(rankings[i], rankings[j])
           /\ rankings[i].total_wins > 0
           /\ ~SameRanking(rankings[i], rankings[k])
           /\ \E a, b \in 1..Len(league.teams) :
                  /\ a < b
                  /\ league.teams[a].team_id = rankings[j].team_id
                  /\ league.teams[b].team_id = rankings[i].team_id

\* C4: the returned list has exactly one result per team of the roster, and
\* a team with no score in the window has total_wins, total_losses,
\* total_points and ranking 0.
C4_OneResultPerTeam ==
    Returned =>
        /\ Len(rankings) = Len(league.teams)
        /\ \A i \in 1..Len(league.teams) :
               LET t == league.teams[i]
                   rs == {k \in 1..Len(rankings) : rankings[k].team_id = t.team_id}
               IN  /\ Cardinality(rs) = 1
                   /\ (Len(t.scores) = 0 \/ week = 0) =>
                          \A k \in rs :
                              /\ rankings[k].total_wins = 0
                              /\ rankings[k].total_losses = 0
                              /\ rankings[k].total_points = 0
                              /\ rankings[k].ranking[1] = 0

\* A team without any score in a league whose other teams won periods, with
\* a positive period count.
C4_Witness ==
    /\ pc = "returned"
    /\ week > MaxLen
    /\ \E i \in 1..Len(league.teams) : Len(league.teams[i].scores) = 0
    /\ \E k \in 1..Len(rankings) : rankings[k].total_wins > 0

\* C5 as stated: no ratio of the program raises a division fault.
C5_NoDivisionFault == fault # "ZeroDivisionError"

Malformed ==
    \/ Len(week_arg) = 1 /\ week_arg[1] < 0
    \/ \E i \in 1..Len(league.teams) :
           Len(league.teams[i].scores) # Len(league.teams[i].outcomes)

\* C6 as stated: calculate_power_rankings never returns a ranking list for a
\* negative week or for a team whose scores and outcomes differ in length.
C6_FailFast == Malformed => ~Returned

Requested == IF Len(week_arg) = 0 THEN league.current_week ELSE week_arg[1]

Populated ==
    IF Len(league.teams) = 0 THEN 0
    ELSE CHOOSE n \in 0..MaxLen :
             /\ \E i \in 1..Len(league.teams) : Len(league.teams[i].scores) = n
             /\ \A i \in 1..Len(league.teams) : Len(league.teams[i].scores) <= n

\* C7 as stated: the period count behind every derived figure is the
\* requested week (league.current_week when none is requested) clamped to
\* the ceiling 14 and to the number of periods populated with scores.
C7_ClampedToPopulated ==
    Returned =>
        LET W == Min(Min(Requested, max_week), Populated)
        IN  /\ week = W
            /\ Len(weekly_records) = W
            /\ \A k \in 1..Len(rankings) :
                   /\ Len(rankings[k].scores) <= W
                   /\ rankings[k].median_losses = W - rankings[k].median_wins

\* C8: ranking is total_wins / (total_wins + total_losses) when that
\* denominator is positive and 0 when it is zero, and lies in [0, 1].
C8_RankingInUnitInterval ==
    Returned =>
        \A k \in 1..Len(rankings) :
            LET r == rankings[k]
                den == r.total_wins + r.total_losses
            IN  /\ r.ranking[2] > 0
                /\ den > 0 => r.ranking[1] * den = r.total_wins * r.ranking[2]
                /\ den = 0 => r.ranking[1] = 0
                /\ 0 <= r.ranking[1] /\ r.ranking[1] <= r.ranking[2]
                /\ 0 <= r.total_wins /\ r.total_wins <= den

\* A returned list with a ranking strictly between 0 and 1 and a team of no
\* qualifying period.
C8_Witness ==
    /\ pc = "returned"
    /\ \E k \in 1..Len(rankings) :
           /\ 0 < rankings[k].total_wins
           /\ 0 < rankings[k].total_losses
           /\ 0 < rankings[k].ranking[1]
           /\ rankings[k].ranking[1] < rankings[k].ranking[2]
    /\ \E k \in 1..Len(rankings) :
           rankings[k].total_wins + rankings[k].total_losses = 0

\* C9: median_wins counts the periods of the window in which the team's
\* score is strictly greater than the median of the scores of the teams that
\* scored in the period, and median_losses = W - median_wins.
C9_MedianWins ==
    Returned =>
        \A i \in 1..Len(teams) :
            LET t == teams[i]
                r == ResultOf(t.team_id)
            IN  /\ r.median_wins =
                     Cardinality({p \in 1..Len(t.scores) :
                         p <= week /\ 2 * t.scores[p] > PeriodMedian2(p)})
                /\ r.median_losses = week - r.median_wins
                /\ r.median_wins + r.median_losses = week

\* A period of the window in which three teams scored, two of them exactly
\* the median and the third above it, the third alone earning the median
\* win.
C9_Witness ==
    /\ pc = "returned"
    /\ week = 1
    /\ \E i, j, k \in Scoring(1) :
           /\ i # j
           /\ Cardinality(Scoring(1)) = MaxTeams
           /\ 2 * ScoreAt(i, 1) = PeriodMedian2(1)
           /\ 2 * ScoreAt(j, 1) = PeriodMedian2(1)
           /\ 2 * ScoreAt(k, 1) > PeriodMedian2(1)
           /\ ResultOf(teams[i].team_id).median_wins = 0
           /\ ResultOf(teams[j].team_id).median_wins = 0
           /\ ResultOf(teams[k].team_id).median_wins = 1

\* C10: given teams in ascending team_id order, a team's 0-indexed rank r in
\* a period is the number of teams with a higher score plus the number with
\* the same score and a smaller team_id, its record is wins = K - (r + 1)
\* and losses = r, and of two equal-score teams the one with the smaller
\* team_id has more wins and fewer losses.
C10_TieBreakByTeamId ==
    (HasRecords /\ Ascending(teams)) =>
        \A p \in 1..Len(weekly_records) : \A i \in Scoring(p) :
            LET m == weekly_records[p]
                id == teams[i].team_id
                K == Cardinality(Scoring(p))
                r == Cardinality({j \in Scoring(p) :
                         \/ ScoreAt(j, p) > ScoreAt(i, p)
                         \/ /\ ScoreAt(j, p) = ScoreAt(i, p)
                            /\ teams[j].team_id < id})
            IN  /\ m[id] = [wins |-> K - (r + 1), losses |-> r,
                           score |-> ScoreAt(i, p)]
                /\ \A j \in Scoring(p) :
                       (ScoreAt(j, p) = ScoreAt(i, p) /\ id < teams[j].team_id)
                           => /\ m[id].wins > m[teams[j].team_id].wins
                              /\ m[id].losses < m[teams[j].team_id].losses

\* calculate_power_rankings on a roster given out of team_id order, with a
\* period in which two of three scoring teams have the same score.
C10_Witness ==
    /\ pc = "returned"
    /\ ~Ascending(league.teams)
    /\ \E p \in 1..Len(weekly_records) : \E i, j \in Scoring(p) :
           /\ Cardinality(Scoring(p)) = MaxTeams
           /\ teams[i].team_id < teams[j].team_id
           /\ ScoreAt(i, p) = ScoreAt(j, p)
           /\ weekly_records[p][teams[i].team_id].wins
                = weekly_records[p][teams[j].team_id].wins + 1

====
